---- MODULE Spec2Model ----
(***************************************************************************)
(* Beer-FAQ bot: the rulebook cache (bot/claude_client.py), the request    *)
(* handlers, the refresh loop and the message splitter (bot/bot.py), and   *)
(* the script that produces the bundled rulebook.txt                       *)
(* (scripts/extract_rulebook.py).                                          *)
(*                                                                         *)
(* A text is a sequence of characters; a character is a one-element token. *)
(***************************************************************************)
EXTENDS Integers, Sequences, FiniteSets, TLC

VARIABLES
    \* ---- the world
    localFile,     \* the content of bot/rulebook.txt, written by extract_rulebook.py
    \* ---- claude_client.py
    rulebook_text, \* the module global _rulebook_text
    \* ---- one request each, r \in Requests: the handler `ask` and, in a worker
    \* ---- thread, _ask_sync
    pc,            \* where request r is
    raw,           \* r's fetch: the response the remote gave (while `text` is live)
    text,          \* the local `text` of _load_rulebook
    rulebook,      \* the local `rulebook` of _ask_sync
    answer,        \* the local `answer` of the handler
    idx,           \* the loop index `i` of the handler's delivery loop
    sent,          \* the messages the handler has sent for r, as <<kind, length>>
    api_calls,     \* how many times r invoked client.messages.create
    \* ---- the refresh loop tasks, one for each on_ready event k \in Loops
    r_pc,          \* where the k-th _refresh_rulebook_loop is
    r_text,        \* the local `text` of its refresh_rulebook call
    r_done,        \* what its refresh_rulebook call that just ended returned and
                   \* logged; the loop's statement discards the value
    \* ---- history
    prev,          \* what the last completed get() returned, while nothing can replace it
    second,        \* second[r]: r's get() began after a get() had returned (prev was set)
    fail_streak,   \* the consecutive failed refreshes so far: 0, 1, or 2 for two or more
    api_failed,    \* api_failed[r]: r's model request failed
    \* ---- the handlers up to the call of ask_rulebook (bot.py:48-67, 157-190)
    faq_channel_id,   \* bot.faq_channel_id
    recent_questions, \* bot.recent_questions, oldest entry first
    q_cap,            \* the deque's maxlen (MAX_RECENT_QUESTIONS in the code)
    log_count,        \* how many times _log_question has run; the clock of `time`
    pool,             \* which questions and messages users send in this run
    hd,               \* hd[h]: the command or message handler h works on and
                      \* its locals
    \* ---- _split_message, run statement by statement (bot.py:203-218)
    s_orig,      \* the argument `text` as passed in
    s_max,       \* the size limit (MAX_RESPONSE_LENGTH in the code)
    s_text,      \* the local `text`, the remaining text
    s_chunks,    \* the local `chunks`
    s_pc         \* "enter" | "loop" | "done"

split_vars == <<s_orig, s_max, s_text, s_chunks, s_pc>>
req_vars == <<pc, raw, text, rulebook, answer, idx, sent, api_calls>>
loop_vars == <<r_pc, r_text, r_done>>
hist_vars == <<prev, second, fail_streak, api_failed>>
main_vars == <<localFile, rulebook_text, req_vars, loop_vars, hist_vars>>
gate_vars == <<faq_channel_id, recent_questions, q_cap, log_count, pool, hd>>
\* what the cache, the requests and the loops leave alone
other_vars == <<split_vars, gate_vars>>
vars == <<main_vars, split_vars, gate_vars>>

\* ------------------------------------------------------------ characters
NL == "\n"
SP == " "
BOM == "BOM"
ZWSP == "ZWSP"
\* str.strip() with no argument strips whitespace; BOM and ZWSP are not whitespace.
Whitespace == {NL, SP}

Min(a, b) == IF a <= b THEN a ELSE b
Max(a, b) == IF a >= b THEN a ELSE b

\* c * n
Rep(c, n) == [i \in 1..n |-> c]

\* ------------------------------------------------------- str operations
\* the number of leading characters of s, from position i on, that are in `chars`
RECURSIVE LeadFrom(_, _, _)
LeadFrom(s, chars, i) ==
    IF i > Len(s) \/ s[i] \notin chars THEN 0 ELSE 1 + LeadFrom(s, chars, i + 1)

\* the number of trailing characters of s, up to position i, that are in `chars`
RECURSIVE TrailFrom(_, _, _)
TrailFrom(s, chars, i) ==
    IF i < 1 \/ s[i] \notin chars THEN 0 ELSE 1 + TrailFrom(s, chars, i - 1)

LeadCount(s, chars) == LeadFrom(s, chars, 1)

TrailCount(s, chars) == TrailFrom(s, chars, Len(s))

\* s.lstrip(chars): the longest prefix made of `chars` is removed.
LStrip(s, chars) == SubSeq(s, LeadCount(s, chars) + 1, Len(s))

\* s.rstrip(chars)
RStrip(s, chars) == SubSeq(s, 1, Len(s) - TrailCount(s, chars))

\* s.strip()
Strip(s) == LET l == LStrip(s, Whitespace) IN RStrip(l, Whitespace)

\* s.rfind(c, 0, end): the highest 0-based index i < end with s[i] = c, or -1.
RFind(s, c, end) ==
    LET hits == {i \in 1..Min(end, Len(s)) : s[i] = c}
    IN  IF hits = {} THEN -1
        ELSE (CHOOSE i \in hits : \A j \in hits : i >= j) - 1

\* the length of the run of c that starts at (1-based) position i
RunLen(s, c, i) == LeadFrom(s, {c}, i)

\* re.sub(r"\n{3,}", "\n\n", s): every maximal run of three or more newlines
\* becomes two newlines; shorter runs stay.
RECURSIVE CollapseFrom(_, _, _)
CollapseFrom(s, i, acc) ==
    IF i > Len(s) THEN acc
    ELSE IF s[i] = NL
         THEN LET k == RunLen(s, NL, i)
              IN  CollapseFrom(s, i + k, acc \o Rep(NL, IF k >= 3 THEN 2 ELSE k))
         ELSE LET \* copy up to the next newline in one step
                  stop == {j \in i..Len(s) : s[j] = NL}
                  e == IF stop = {} THEN Len(s)
                       ELSE (CHOOSE j \in stop : \A m \in stop : j <= m) - 1
              IN  CollapseFrom(s, e + 1, acc \o SubSeq(s, i, e))

CollapseNewlines(s) == CollapseFrom(s, 1, <<>>)

\* s.replace(c, "")
RemoveChar(s, c) == SelectSeq(s, LAMBDA x : x # c)

\* ------------------------------------------------------ _split_message
MAX_RESPONSE_LENGTH == 1900

\* One pass of the while body (bot.py:210-217) on the locals (text, chunks) with
\* the limit maxLen; `brk` tells that the pass ended in `break`.
SplitStepLoseChar(txt, chunks, maxLen) ==
    IF Len(txt) <= maxLen
    THEN [text |-> txt, chunks |-> Append(chunks, txt), brk |-> TRUE]
    ELSE LET found == RFind(txt, NL, maxLen)
             split_at == IF found = -1 THEN maxLen ELSE found
         IN  [text   |-> SubSeq(txt, split_at + 2, Len(txt)),
              chunks |-> Append(chunks, SubSeq(txt, 1, split_at)),
              brk    |-> FALSE]

SplitStepLongCut(txt, chunks, maxLen) ==
    IF Len(txt) <= maxLen
    THEN [text |-> txt, chunks |-> Append(chunks, txt), brk |-> TRUE]
    ELSE LET found == RFind(txt, NL, maxLen)
             split_at == IF found = -1 THEN maxLen + 1 ELSE found
         IN  [text   |-> LStrip(SubSeq(txt, split_at + 1, Len(txt)), {NL}),
              chunks |-> Append(chunks, SubSeq(txt, 1, split_at)),
              brk    |-> FALSE]

SplitStepFirstNewline(txt, chunks, maxLen) ==
    IF Len(txt) <= maxLen
    THEN [text |-> txt, chunks |-> Append(chunks, txt), brk |-> TRUE]
    ELSE LET hits == {i \in 1..maxLen : txt[i] = NL}
             split_at == IF hits = {} THEN maxLen
                         ELSE (CHOOSE i \in hits : \A j \in hits : i <= j) - 1
         IN  [text   |-> LStrip(SubSeq(txt, split_at + 1, Len(txt)), {NL}),
              chunks |-> Append(chunks, SubSeq(txt, 1, split_at)),
              brk    |-> FALSE]

SplitStepNoStrip(txt, chunks, maxLen) ==
    IF Len(txt) <= maxLen
    THEN [text |-> txt, chunks |-> Append(chunks, txt), brk |-> TRUE]
    ELSE LET found == RFind(txt, NL, maxLen)
             split_at == IF found = -1 THEN maxLen ELSE found
         IN  [text   |-> SubSeq(txt, split_at + 1, Len(txt)),
              chunks |-> Append(chunks, SubSeq(txt, 1, split_at)),
              brk    |-> FALSE]

SplitStep(txt, chunks, maxLen) ==
    IF Len(txt) <= maxLen
    THEN [text |-> txt, chunks |-> Append(chunks, txt), brk |-> TRUE]
    ELSE LET found == RFind(txt, NL, maxLen)
             split_at == IF found = -1 THEN maxLen ELSE found
         IN  [text   |-> LStrip(SubSeq(txt, split_at + 1, Len(txt)), {NL}),
              chunks |-> Append(chunks, SubSeq(txt, 1, split_at)),
              brk    |-> FALSE]

\* the while loop (bot.py:209-218)
RECURSIVE SplitLoop(_, _, _)
SplitLoop(txt, chunks, maxLen) ==
    IF txt = <<>> THEN chunks
    ELSE LET st == SplitStep(txt, chunks, maxLen)
         IN  IF st.brk THEN st.chunks ELSE SplitLoop(st.text, st.chunks, maxLen)

\* _split_message with the limit as a parameter
SplitAt(txt, maxLen) ==
    IF Len(txt) <= maxLen THEN <<txt>> ELSE SplitLoop(txt, <<>>, maxLen)

split_message(txt) == SplitAt(txt, MAX_RESPONSE_LENGTH)

\* ------------------------------------------------------------ markers
\* Python's None, and an exception leaving the call
None == <<"None">>
Raised == <<"Raised">>
\* history: no document
NoDoc == <<"NoDoc">>
NoResp == [kind |-> "none", body |-> <<>>]

\* `if x:` for x a str or None
Truthy(x) == x # None /\ x # <<>>

\* ------------------------------------------- scripts/extract_rulebook.py
DigitChars == <<"0", "1", "2", "3", "4", "5", "6", "7", "8", "9">>

\* f"[Page {i}]\n\n{text}" after the clean-up of the page's text
PageBlock(i, page) ==
    <<"[", "P", "a", "g", "e", SP, DigitChars[i + 1], "]", NL, NL>>
    \o Strip(CollapseNewlines(RemoveChar(page, ZWSP)))

RECURSIVE JoinPages(_, _)
JoinPages(pdf, i) ==
    IF i > Len(pdf) THEN <<>>
    ELSE IF i = Len(pdf) THEN PageBlock(i, pdf[i])
    ELSE PageBlock(i, pdf[i]) \o <<NL, NL, "-", "-", "-", NL, NL>> \o JoinPages(pdf, i + 1)

\* extract(): the text written to bot/rulebook.txt for a PDF given as its pages' texts
extract(pdf) == JoinPages(pdf, 1)

\* the rulebook PDFs tried: a two-page leaflet and a one-page rulebook
Pdfs ==
    { << <<"a", ZWSP, "b", NL, NL, NL, NL>>, <<SP, "c">> >>,
      << Rep("r", 60) \o <<NL, NL, NL>> \o Rep("s", 60) >> }

\* --------------------------------------------- _fetch_from_google_docs
MIN_RULEBOOK_CHARS == 100

\* What urlopen/read/decode did: a body, an error of a class the function catches
\* (URLError, HTTPError, OSError, ValueError), or one it does not (for one,
\* http.client.IncompleteRead from resp.read()).
Responses ==
    { [kind |-> "body",
       body |-> <<BOM>> \o Rep("x", 58) \o <<NL, NL, NL, NL>> \o Rep("y", 40) \o <<NL, SP>>],
      [kind |-> "body", body |-> Rep("x", 50)],
      [kind |-> "caught", body |-> <<>>],
      [kind |-> "uncaught", body |-> <<>>] }

\* claude_client.py:44-46
Normalize(body) == Strip(CollapseNewlines(LStrip(body, {BOM})))

fetch_from_google_docs(resp) ==
    IF resp.kind = "uncaught" THEN Raised
    ELSE IF resp.kind = "caught" THEN None
    ELSE LET t == Normalize(resp.body)
         IN  IF Len(t) < MIN_RULEBOOK_CHARS THEN None ELSE t

\* the function on each response tried
FetchResult == [resp \in Responses |-> fetch_from_google_docs(resp)]

\* ------------------------------------------------------ _load_rulebook
\* claude_client.py:60, `if not _rulebook_text`
NeedsLoad_Always(cache) == TRUE

NeedsLoad(cache) == ~Truthy(cache)

\* claude_client.py:62-66, the value assigned to _rulebook_text
LoadAdopt(fetched, local) ==
    IF Truthy(fetched) THEN fetched ELSE local

\* ----------------------------------------------------- refresh_rulebook
\* claude_client.py:76-80, the value of _rulebook_text after the call
RefreshAdopt_Unconditional(fetched, cache) ==
    IF fetched = None THEN <<>> ELSE fetched

RefreshAdopt(fetched, cache) ==
    IF Truthy(fetched) THEN fetched ELSE cache

\* ------------------------------------------ the handler and _ask_sync
\* bot.py:66-73: where the handler goes when ask_rulebook raises
OnAskFailure_Retry == "L93"

OnAskFailure == "except"

\* bot.py:152-155: where the loop goes when refresh_rulebook raises
OnRefreshRaise_Uncaught == "crashed"

OnRefreshRaise == "L154"

\* what client.messages.create and response.content[0].text gave
ApiFailed == <<"ApiFailed">>
Answers == { Rep("a", MAX_RESPONSE_LENGTH) \o <<NL>> \o <<"b">> }

\* _split_message on each answer tried
ChunksOf == [a \in Answers |-> split_message(a)]

\* claude_client.py:71-80: what refresh_rulebook returns (it has no return
\* statement), as Python prints it
RefreshResult_Boolean(fetched) == IF Truthy(fetched) THEN "True" ELSE "False"

RefreshResult(fetched) == "None"

\* claude_client.py:78, 80: the level of the record refresh_rulebook logs
RefreshLog(fetched) == IF Truthy(fetched) THEN "info" ELSE "warning"

\* no refresh_rulebook call has just returned
NoOutcome == [ret |-> "NoValue", log |-> "none"]

\* ---- bounds
NumRequests == 2
NumReady == 2

Requests == 1..NumRequests

\* the on_ready events, each with the loop task it creates
Loops == 1..NumReady

\* the process after start-up, before any event
MainStart ==
    /\ rulebook_text = <<>>
    /\ pc = [r \in Requests |-> "idle"]
    /\ raw = [r \in Requests |-> NoResp]
    /\ text = [r \in Requests |-> None]
    /\ rulebook = [r \in Requests |-> NoDoc]
    /\ answer = [r \in Requests |-> <<>>]
    /\ idx = [r \in Requests |-> 0]
    /\ sent = [r \in Requests |-> <<>>]
    /\ api_calls = [r \in Requests |-> 0]
    /\ r_pc = [k \in Loops |-> "off"]
    /\ r_text = [k \in Loops |-> None]
    /\ r_done = [k \in Loops |-> NoOutcome]
    /\ prev = NoDoc
    /\ second = [r \in Requests |-> FALSE]
    /\ fail_streak = 0
    /\ api_failed = [r \in Requests |-> FALSE]

MainInit ==
    /\ localFile \in {extract(p) : p \in Pdfs}
    /\ MainStart

\* the cache, the requests and the loops at rest, with the one-page rulebook
MainIdle ==
    /\ localFile = extract(CHOOSE p \in Pdfs : Len(p) = 1)
    /\ MainStart

\* ----------------------------------------- the handlers before dispatch
MAX_RECENT_QUESTIONS == 50

\* f"<@{self.user.id}>", the bot's mention, as one character of a message
MENTION == "MENTION"

\* bot.faq_channel_id when no channel is set (None; config.py:6)
NoChannel == "None"
Channels == {"faq", "general"}

NoArg == <<"NoArg">>

\* deque.append on a deque with maxlen cap (bot.py:22, 27): when the deque is
\* full its oldest entry is discarded
DequeAppend_Unbounded(buf, e, cap) == Append(buf, e)

DequeAppend(buf, e, cap) ==
    IF Len(buf) < cap THEN Append(buf, e) ELSE Append(Tail(buf), e)

\* bot.py:49-61, the /ask handler's channel tests: the notice it sends, or "pass"
SlashGate_AnyChannel(faq, chan) ==
    IF faq = NoChannel THEN "notice_unset" ELSE "pass"

SlashGate(faq, chan) ==
    IF faq # NoChannel /\ chan # faq THEN "notice_other"
    ELSE IF faq = NoChannel THEN "notice_unset"
    ELSE "pass"

\* bot.py:164-176, on_message's channel tests
MentionGate(faq, chan) ==
    IF faq = NoChannel THEN "notice_unset"
    ELSE IF chan # faq THEN "notice_other"
    ELSE "pass"

\* bot.py:178
MentionQuestion(content) == Strip(RemoveChar(content, MENTION))

\* a handler with nothing to work on
IdleHandler ==
    [pc |-> "idle", path |-> "none", chan |-> "none", content |-> <<>>,
     addressed |-> FALSE, question |-> <<>>, logged |-> NoArg, arg |-> NoArg]

\* ---- bounds
NumHandlers == 2
MaxSmallCap == 2
MaxOverflow == 2

Handlers == 1..NumHandlers

GateIdle ==
    /\ faq_channel_id = NoChannel
    /\ recent_questions = <<>>
    /\ q_cap = MAX_RECENT_QUESTIONS
    /\ log_count = 0
    /\ pool = "single"
    /\ hd = [h \in Handlers |-> IdleHandler]

SplitIdle ==
    /\ s_orig = <<>>
    /\ s_max = MAX_RESPONSE_LENGTH
    /\ s_text = <<>>
    /\ s_chunks = <<>>
    /\ s_pc = "done"

Init == MainInit /\ SplitIdle /\ GateIdle

\* bot.py:63-67: the handler defers, logs the question and awaits ask_rulebook,
\* which runs _ask_sync in a worker thread (claude_client.py:102-105, 91), which
\* enters _load_rulebook and tests the cache (claude_client.py:60)
Ask(r) ==
    /\ pc[r] = "idle"
    /\ pc' = [pc EXCEPT ![r] = IF NeedsLoad(rulebook_text) THEN "L61" ELSE "L68"]
    /\ second' = [second EXCEPT ![r] = (prev # NoDoc)]
    /\ UNCHANGED <<localFile, rulebook_text, raw, text, rulebook, answer, idx, sent,
                   api_calls, loop_vars, prev, fail_streak, api_failed,
                   other_vars>>

\* claude_client.py:61 and 37-54: the fetch; an exception it does not catch leaves
\* _load_rulebook, _ask_sync and ask_rulebook and reaches the handler (bot.py:68)
LoadFetch(r) ==
    /\ pc[r] = "L61"
    /\ \E resp \in Responses :
         LET res == FetchResult[resp]
         IN  IF res = Raised
             THEN /\ pc' = [pc EXCEPT ![r] = "except"]
                  /\ second' = [second EXCEPT ![r] = FALSE]
                  /\ UNCHANGED <<raw, text>>
             ELSE /\ pc' = [pc EXCEPT ![r] = "L62"]
                  /\ raw' = [raw EXCEPT ![r] = resp]
                  /\ text' = [text EXCEPT ![r] = res]
                  /\ UNCHANGED second
    /\ UNCHANGED <<localFile, rulebook_text, rulebook, answer, idx, sent, api_calls,
                   loop_vars, prev, fail_streak, api_failed,
                   other_vars>>

\* claude_client.py:62-67
LoadWrite(r) ==
    /\ pc[r] = "L62"
    /\ rulebook_text' = LoadAdopt(text[r], localFile)
    /\ pc' = [pc EXCEPT ![r] = "L68"]
    /\ raw' = [raw EXCEPT ![r] = NoResp]
    /\ text' = [text EXCEPT ![r] = None]
    /\ UNCHANGED <<localFile, rulebook, answer, idx, sent, api_calls, loop_vars,
                   hist_vars, other_vars>>

\* claude_client.py:68, 91: `return _rulebook_text` reads the global again
LoadReturn(r) ==
    /\ pc[r] = "L68"
    /\ rulebook' = [rulebook EXCEPT ![r] = rulebook_text]
    /\ pc' = [pc EXCEPT ![r] = "L93"]
    /\ prev' = IF \A u \in Requests \ {r} : pc[u] \notin {"L61", "L62"}
               THEN rulebook_text ELSE NoDoc
    /\ UNCHANGED <<localFile, rulebook_text, raw, text, answer, idx, sent, api_calls,
                   loop_vars, second, fail_streak, api_failed,
                   other_vars>>

\* claude_client.py:92-99: the model request and the extraction of its text; any
\* failure leaves _ask_sync as an exception
ApiCall(r) ==
    /\ pc[r] = "L93"
    /\ api_calls' = [api_calls EXCEPT ![r] = @ + 1]
    /\ \E out \in Answers \cup {ApiFailed} :
         IF out = ApiFailed
         THEN /\ pc' = [pc EXCEPT ![r] = OnAskFailure]
              /\ api_failed' = [api_failed EXCEPT ![r] = TRUE]
              /\ UNCHANGED answer
         ELSE /\ pc' = [pc EXCEPT ![r] = "L75"]
              /\ answer' = [answer EXCEPT ![r] = out]
              /\ UNCHANGED api_failed
    /\ rulebook' = [rulebook EXCEPT ![r] = IF pc'[r] = "L93" THEN @ ELSE NoDoc]
    /\ second' = [second EXCEPT ![r] = IF pc'[r] = "L93" THEN @ ELSE FALSE]
    /\ UNCHANGED <<localFile, rulebook_text, raw, text, idx, sent, loop_vars,
                   prev, fail_streak, other_vars>>

\* bot.py:68-73
SendError(r) ==
    /\ pc[r] = "except"
    /\ sent' = [sent EXCEPT ![r] = Append(@, [kind |-> "error", len |-> 50])]
    /\ pc' = [pc EXCEPT ![r] = "done"]
    /\ UNCHANGED <<localFile, rulebook_text, raw, text, rulebook, answer, idx,
                   api_calls, loop_vars, hist_vars, other_vars>>

\* bot.py:75-79: one pass of the delivery loop; after the last chunk the handler returns
SendChunk(r) ==
    /\ pc[r] = "L75"
    /\ LET chunks == ChunksOf[answer[r]]
           last == idx[r] + 1 >= Len(chunks)
       IN  /\ sent' = [sent EXCEPT ![r] =
                          Append(@, [kind |-> "chunk", len |-> Len(chunks[idx[r] + 1])])]
           /\ idx' = [idx EXCEPT ![r] = IF last THEN 0 ELSE @ + 1]
           /\ answer' = [answer EXCEPT ![r] = IF last THEN <<>> ELSE @]
           /\ pc' = [pc EXCEPT ![r] = IF last THEN "done" ELSE "L75"]
    /\ UNCHANGED <<localFile, rulebook_text, raw, text, rulebook, api_calls,
                   loop_vars, hist_vars, other_vars>>

\* bot.py:150-151: `while not self.is_closed()` and the start of the sleep; the
\* client may have been closed
LoopTop == {IF is_closed THEN "exited" ELSE "L151" : is_closed \in BOOLEAN}

\* bot.py:138-148: the k-th on_ready event (the gateway delivers it again after
\* a reconnect) creates a loop task, which reaches its first sleep
OnReady(k) ==
    /\ r_pc[k] = "off"
    /\ \A j \in Loops : j < k => r_pc[j] # "off"
    /\ \E top \in LoopTop : r_pc' = [r_pc EXCEPT ![k] = top]
    /\ UNCHANGED <<localFile, rulebook_text, req_vars, r_text, r_done, hist_vars,
                   other_vars>>

\* bot.py:151-153, claude_client.py:74-75 and 37-54: the sleep ends and
\* refresh_rulebook runs the fetch in a worker thread; an exception the fetch does
\* not catch leaves refresh_rulebook inside the loop's try
RefreshFetch(k) ==
    /\ r_pc[k] = "L151"
    /\ r_done' = [r_done EXCEPT ![k] = NoOutcome]
    /\ \E resp \in Responses :
         LET res == FetchResult[resp]
         IN  IF res = Raised
             THEN /\ r_pc' = [r_pc EXCEPT ![k] = OnRefreshRaise]
                  /\ fail_streak' = Min(fail_streak + 1, 2)
                  /\ UNCHANGED r_text
             ELSE /\ r_pc' = [r_pc EXCEPT ![k] = "L76"]
                  /\ r_text' = [r_text EXCEPT ![k] = res]
                  /\ UNCHANGED fail_streak
    /\ UNCHANGED <<localFile, rulebook_text, req_vars, prev, second, api_failed,
                   other_vars>>

\* claude_client.py:76-80, then bot.py:150-151
RefreshWrite(k) ==
    /\ r_pc[k] = "L76"
    /\ rulebook_text' = RefreshAdopt(r_text[k], rulebook_text)
    /\ r_done' = [r_done EXCEPT ![k] = [ret |-> RefreshResult(r_text[k]),
                                        log |-> RefreshLog(r_text[k])]]
    /\ \E top \in LoopTop : r_pc' = [r_pc EXCEPT ![k] = top]
    /\ r_text' = [r_text EXCEPT ![k] = None]
    /\ IF Truthy(r_text[k])
       THEN /\ prev' = NoDoc
            /\ fail_streak' = 0
       ELSE /\ fail_streak' = Min(fail_streak + 1, 2)
            /\ UNCHANGED prev
    /\ UNCHANGED <<localFile, req_vars, second, api_failed, other_vars>>

\* bot.py:154-155, then 150-151: the except clause logs and the loop goes round
RefreshCaught(k) ==
    /\ r_pc[k] = "L154"
    /\ \E top \in LoopTop : r_pc' = [r_pc EXCEPT ![k] = top]
    /\ UNCHANGED <<localFile, rulebook_text, req_vars, r_text, r_done, hist_vars,
                   other_vars>>

LoopStep(k) == RefreshFetch(k) \/ RefreshWrite(k) \/ RefreshCaught(k)

\* one step of request r, from the command to the handler's return
RequestStep(r) ==
    \/ Ask(r)
    \/ LoadFetch(r)
    \/ LoadWrite(r)
    \/ LoadReturn(r)
    \/ ApiCall(r)
    \/ SendError(r)
    \/ SendChunk(r)

\* The requests and the loop task of the first on_ready event.
Next ==
    \/ \E r \in Requests : RequestStep(r)
    \/ OnReady(1)
    \/ LoopStep(1)

Spec == Init /\ [][Next]_vars

\* The refresh loop with one request beside it. The event loop runs a task that
\* can run; the sleep and the fetch (15 s socket timeout) end.
LoopNext ==
    \/ RequestStep(1)
    \/ OnReady(1)
    \/ LoopStep(1)

FairSpec ==
    /\ Init
    /\ [][LoopNext]_vars
    /\ WF_vars(RefreshFetch(1)) /\ WF_vars(RefreshWrite(1)) /\ WF_vars(RefreshCaught(1))

\* Every on_ready event and the loop task each creates, with one request beside
\* them.
ReadyNext ==
    \/ RequestStep(1)
    \/ \E k \in Loops : OnReady(k) \/ LoopStep(k)

ReadySpec == Init /\ [][ReadyNext]_vars

\* ---- bounds of the splitter's inputs
MaxTextLen == 6
MaxSmallLimit == 3

RECURSIVE TextsOfLen(_, _)
TextsOfLen(alphabet, n) ==
    IF n = 0 THEN {<<>>}
    ELSE {Append(t, c) : t \in TextsOfLen(alphabet, n - 1), c \in alphabet}

TextsUpTo(alphabet, n) == UNION {TextsOfLen(alphabet, k) : k \in 0..n}

\* texts around the code's own limit
LongTexts ==
    { Rep("a", 5000),
      Rep("a", MAX_RESPONSE_LENGTH),
      Rep("a", MAX_RESPONSE_LENGTH + 1),
      <<NL>> \o Rep("a", MAX_RESPONSE_LENGTH),
      Rep("a", MAX_RESPONSE_LENGTH - 1) \o <<NL>> \o Rep("b", 10),
      Rep("a", MAX_RESPONSE_LENGTH) \o <<NL>> \o Rep("b", 10),
      Rep("a", 1000) \o <<NL>> \o Rep("b", 1000) \o <<NL, NL, NL>> \o Rep("c", 1000),
      Rep("a", 2000) \o <<NL>> \o Rep("b", 2000),
      Rep("a", MAX_RESPONSE_LENGTH) \o <<NL, NL>> }

SplitInputs ==
    {<<t, m>> : t \in TextsUpTo({"a", NL}, MaxTextLen), m \in 1..MaxSmallLimit}
    \cup {<<t, MAX_RESPONSE_LENGTH>> : t \in LongTexts}

SplitInit ==
    /\ MainIdle
    /\ GateIdle
    /\ \E inp \in SplitInputs :
        /\ s_orig = inp[1]
        /\ s_max = inp[2]
        /\ s_text = inp[1]
        /\ s_chunks = <<>>
        /\ s_pc = "enter"

\* bot.py:205-208
SplitEnter ==
    /\ s_pc = "enter"
    /\ IF Len(s_text) <= s_max
       THEN s_chunks' = <<s_text>> /\ s_pc' = "done"
       ELSE s_chunks' = <<>> /\ s_pc' = "loop"
    /\ UNCHANGED <<s_orig, s_max, s_text, main_vars, gate_vars>>

\* bot.py:209-217, one pass of the loop
SplitIter ==
    /\ s_pc = "loop"
    /\ s_text # <<>>
    /\ LET st == SplitStep(s_text, s_chunks, s_max)
       IN  /\ s_text' = st.text
           /\ s_chunks' = st.chunks
           /\ s_pc' = IF st.brk THEN "done" ELSE "loop"
    /\ UNCHANGED <<s_orig, s_max, main_vars, gate_vars>>

\* bot.py:209 and 218: the loop condition is false, return chunks
SplitReturn ==
    /\ s_pc = "loop"
    /\ s_text = <<>>
    /\ s_pc' = "done"
    /\ UNCHANGED <<s_orig, s_max, s_text, s_chunks, main_vars, gate_vars>>

SplitNext == SplitEnter \/ SplitIter \/ SplitReturn

SplitSpec == SplitInit /\ [][SplitNext]_vars

\* ------------------------------------- the handlers up to ask_rulebook
\* the questions typed into /ask in a run
SlashQuestions ==
    IF pool = "single" THEN {<<"q">>} ELSE {<<"q">>, <<SP>>}

\* the channels the commands and messages of a run come from
RunChannels == IF pool = "single" THEN {"faq"} ELSE Channels

\* the messages seen in a run: the content, and whether on_message goes past
\* bot.py:158-162 (the author is no bot and the bot is among the mentions; a
\* reply that pings the bot mentions it without the mention in its content)
Messages ==
    IF pool = "single"
    THEN {[content |-> <<MENTION, SP, "q">>, addressed |-> TRUE]}
    ELSE {[content |-> <<MENTION, SP, "q">>, addressed |-> TRUE],
          [content |-> <<SP, MENTION, NL>>, addressed |-> TRUE],
          [content |-> <<"q">>, addressed |-> TRUE],
          [content |-> <<MENTION, SP, "q">>, addressed |-> FALSE]}

\* the runs tried: users' inputs of every kind with the code's buffer size and a
\* few questions, or one question many times with small buffers and the code's
Runs ==
    {[pool |-> "varied", cap |-> MAX_RECENT_QUESTIONS]}
    \cup {[pool |-> "single", cap |-> c] :
             c \in (1..MaxSmallCap) \cup {MAX_RECENT_QUESTIONS}}

\* how many questions are logged in the run at most
LogLimit == IF pool = "varied" THEN MaxOverflow ELSE q_cap + MaxOverflow

\* config.py:6 and bot.py:21-22
GateInit ==
    /\ MainIdle
    /\ SplitIdle
    /\ faq_channel_id \in {NoChannel, "faq"}
    /\ recent_questions = <<>>
    /\ \E run \in Runs : pool = run.pool /\ q_cap = run.cap
    /\ log_count = 0
    /\ hd = [h \in Handlers |-> IdleHandler]

\* _log_question (bot.py:24-31)
LogEntry(q) == [user |-> "u", question |-> q, time |-> log_count + 1]

\* the gateway delivers a /ask command, and the event loop starts its handler
SlashArrives(h) ==
    /\ hd[h].pc = "idle"
    /\ log_count < LogLimit
    /\ \E chan \in RunChannels, q \in SlashQuestions :
         hd' = [hd EXCEPT ![h] =
                   [IdleHandler EXCEPT !.pc = "arrived", !.path = "slash",
                                       !.chan = chan, !.content = q,
                                       !.addressed = TRUE]]
    /\ UNCHANGED <<faq_channel_id, recent_questions, q_cap, log_count, pool,
                   main_vars, split_vars>>

\* bot.py:48-63: the channel tests, then the sending of a notice or the defer
SlashGated(h) ==
    /\ hd[h].pc = "arrived"
    /\ hd[h].path = "slash"
    /\ LET verdict == SlashGate(faq_channel_id, hd[h].chan)
       IN  IF verdict = "pass"
           THEN hd' = [hd EXCEPT ![h].pc = "L63", ![h].question = hd[h].content]
           ELSE hd' = [hd EXCEPT ![h] = [IdleHandler EXCEPT !.pc = verdict]]
    /\ UNCHANGED <<faq_channel_id, recent_questions, q_cap, log_count, pool,
                   main_vars, split_vars>>

\* bot.py:63-67: the defer is done; the question is logged and ask_rulebook called
SlashDispatch(h) ==
    /\ hd[h].pc = "L63"
    /\ recent_questions' = DequeAppend(recent_questions, LogEntry(hd[h].question), q_cap)
    /\ log_count' = log_count + 1
    /\ hd' = [hd EXCEPT ![h].pc = "L67",
                        ![h].logged = hd[h].question,
                        ![h].arg = hd[h].question]
    /\ UNCHANGED <<faq_channel_id, q_cap, pool, main_vars, split_vars>>

\* the gateway delivers a message, and the event loop starts on_message
MessageArrives(h) ==
    /\ hd[h].pc = "idle"
    /\ log_count < LogLimit
    /\ \E chan \in RunChannels, m \in Messages :
         hd' = [hd EXCEPT ![h] =
                   [IdleHandler EXCEPT !.pc = "arrived", !.path = "mention",
                                       !.chan = chan, !.content = m.content,
                                       !.addressed = m.addressed]]
    /\ UNCHANGED <<faq_channel_id, recent_questions, q_cap, log_count, pool,
                   main_vars, split_vars>>

\* bot.py:157-188: the tests, then a return, the sending of a reply, or the
\* question is logged and the typing indicator requested
MessageGated(h) ==
    /\ hd[h].pc = "arrived"
    /\ hd[h].path = "mention"
    /\ LET verdict == MentionGate(faq_channel_id, hd[h].chan)
           question == MentionQuestion(hd[h].content)
       IN  IF ~hd[h].addressed
           THEN /\ hd' = [hd EXCEPT ![h] = IdleHandler]
                /\ UNCHANGED <<recent_questions, log_count>>
           ELSE IF verdict # "pass"
           THEN /\ hd' = [hd EXCEPT ![h] = [IdleHandler EXCEPT !.pc = verdict]]
                /\ UNCHANGED <<recent_questions, log_count>>
           ELSE IF question = <<>>
           THEN /\ hd' = [hd EXCEPT ![h] =
                             [IdleHandler EXCEPT !.pc = "prompt_empty"]]
                /\ UNCHANGED <<recent_questions, log_count>>
           ELSE /\ hd' = [hd EXCEPT ![h].pc = "L188", ![h].question = question,
                                    ![h].logged = question]
                /\ recent_questions' =
                       DequeAppend(recent_questions, LogEntry(question), q_cap)
                /\ log_count' = log_count + 1
    /\ UNCHANGED <<faq_channel_id, q_cap, pool, main_vars, split_vars>>

\* bot.py:188-190: inside the typing context ask_rulebook is called
MentionDispatch(h) ==
    /\ hd[h].pc = "L188"
    /\ hd' = [hd EXCEPT ![h].pc = "L190", ![h].arg = hd[h].question]
    /\ UNCHANGED <<faq_channel_id, recent_questions, q_cap, log_count, pool,
                   main_vars, split_vars>>

\* bot.py:50-54, 57-61, 165-169, 172-176, 180-184: the notice is sent and the
\* handler returns
Replied(h) ==
    /\ hd[h].pc \in {"notice_other", "notice_unset", "prompt_empty"}
    /\ hd' = [hd EXCEPT ![h] = IdleHandler]
    /\ UNCHANGED <<faq_channel_id, recent_questions, q_cap, log_count, pool,
                   main_vars, split_vars>>

\* bot.py:67-79 and 190-200: ask_rulebook returns an answer or raises, and the
\* handler delivers the chunks or the try-again message and returns
Answered(h) ==
    /\ hd[h].pc \in {"L67", "L190"}
    /\ hd' = [hd EXCEPT ![h] = IdleHandler]
    /\ UNCHANGED <<faq_channel_id, recent_questions, q_cap, log_count, pool,
                   main_vars, split_vars>>

\* bot.py:91-102: /setchannel in channel chan
SetChannel(chan) ==
    /\ chan \in RunChannels
    /\ faq_channel_id' = chan
    /\ UNCHANGED <<recent_questions, q_cap, log_count, pool, hd, main_vars,
                   split_vars>>

GateNext ==
    \/ \E h \in Handlers :
         \/ SlashArrives(h)
         \/ SlashGated(h)
         \/ SlashDispatch(h)
         \/ MessageArrives(h)
         \/ MessageGated(h)
         \/ MentionDispatch(h)
         \/ Replied(h)
         \/ Answered(h)
    \/ \E chan \in Channels : SetChannel(chan)

GateSpec == GateInit /\ [][GateNext]_vars

\* ---------------------------------------------------------------------
\* Properties of _split_message

\* "\n".join(chunks)
RECURSIVE JoinNL(_)
JoinNL(chunks) ==
    IF chunks = <<>> THEN <<>>
    ELSE IF Len(chunks) = 1 THEN chunks[1]
    ELSE chunks[1] \o <<NL>> \o JoinNL(Tail(chunks))

IsPrefix(p, s) == Len(p) <= Len(s) /\ SubSeq(s, 1, Len(p)) = p

\* Reads T as c1 N1 c2 N2 ... cn Nn, each Ni the whole run of newlines that
\* follows ci in T, and returns <<|N1|, ..., |Nn|>>; <<-1>> when T does not
\* read that way.
RECURSIVE Gaps(_, _)
Gaps(T, chunks) ==
    IF chunks = <<>> THEN (IF T = <<>> THEN <<>> ELSE <<-1>>)
    ELSE IF ~IsPrefix(chunks[1], T) THEN <<-1>>
    ELSE LET rest == SubSeq(T, Len(chunks[1]) + 1, Len(T))
             n == LeadCount(rest, {NL})
             more == Gaps(SubSeq(rest, n + 1, Len(rest)), Tail(chunks))
         IN  IF more = <<-1>> THEN <<-1>> ELSE <<n>> \o more

\* C6: every chunk split returns, the last one included, is at most maxLen long,
\* whether its cut fell on a newline or was a hard cut.
C6_ChunksWithinLimit ==
    /\ \A i \in 1..Len(s_chunks) : Len(s_chunks[i]) <= s_max
    /\ s_pc = "done" => s_chunks = SplitAt(s_orig, s_max)

\* a call with the code's limit that made a hard cut and a newline cut and
\* ended with a shorter last chunk
C6_Witness ==
    /\ s_pc = "done"
    /\ s_max = MAX_RESPONSE_LENGTH
    /\ Len(s_chunks) >= 3
    /\ Len(s_chunks[1]) = MAX_RESPONSE_LENGTH
    /\ Len(s_chunks[Len(s_chunks)]) < MAX_RESPONSE_LENGTH
    /\ LET g == Gaps(s_orig, s_chunks)
       IN  \E i \in 1..(Len(g) - 1) : g[i] >= 1

\* C7 as stated: the chunks joined by exactly one newline at each boundary are T.
C7_JoinReconstructs == s_pc = "done" => JoinNL(s_chunks) = s_orig

\* C7 amended: T is the chunks in order with a run of newlines, possibly empty,
\* after each; joining by one newline gives T when every run between two chunks
\* is exactly one newline and nothing follows the last chunk.
C7_ReconstructsUpToNewlines ==
    s_pc = "done" =>
        LET g == Gaps(s_orig, s_chunks)
            n == Len(s_chunks)
        IN  /\ g # <<-1>>
            /\ Len(g) = n
            /\ ( /\ \A i \in 1..(n - 1) : g[i] = 1
                 /\ n >= 1 => g[n] = 0 )
               <=> JoinNL(s_chunks) = s_orig

\* a finished split with one hard cut (no newline removed) and one newline cut
\* where more than one newline was removed
C7_Witness ==
    /\ s_pc = "done"
    /\ Len(s_chunks) = 3
    /\ LET g == Gaps(s_orig, s_chunks)
       IN  g # <<-1>> /\ Len(g) = 3 /\ g[1] = 0 /\ g[2] >= 2

\* C8: split terminates: a pass of the loop that does not leave the loop strictly
\* shortens the remaining text (also when the newline found is at index 0), so
\* the passes, one chunk each, never outnumber the characters of T; and the
\* result of a non-empty T has at least one chunk.
C8_Terminates ==
    [][ /\ (s_pc = "loop" /\ s_pc' = "loop") => Len(s_text') < Len(s_text)
        /\ Len(s_chunks') <= Max(1, Len(s_orig))
        /\ (s_pc' = "done" /\ s_orig # <<>>) => Len(s_chunks') >= 1 ]_vars

\* the newline found was at index 0 of the remaining text, and the call returned
C8_Witness ==
    /\ s_pc = "done"
    /\ Len(s_orig) > s_max
    /\ s_orig[1] = NL
    /\ Len(s_chunks) >= 2
    /\ s_chunks[1] = <<>>

\* "".join(chunks)
RECURSIVE Concat(_)
Concat(chunks) ==
    IF chunks = <<>> THEN <<>> ELSE chunks[1] \o Concat(Tail(chunks))

RECURSIVE Sum(_)
Sum(ns) == IF ns = <<>> THEN 0 ELSE ns[1] + Sum(Tail(ns))

\* C14: the chunks concatenated in order are T with only newlines removed, and
\* only at the cuts: T without its newlines equals the concatenation without its
\* newlines, the characters missing are exactly the newline runs that follow the
\* chunks in T, and nothing is there twice.
C14_ConcatDropsOnlyBoundaryNewlines ==
    s_pc = "done" =>
        LET cat == Concat(s_chunks)
            g == Gaps(s_orig, s_chunks)
        IN  /\ RemoveChar(cat, NL) = RemoveChar(s_orig, NL)
            /\ g # <<-1>>
            /\ Len(cat) + Sum(g) = Len(s_orig)

\* a finished split of a text with newlines inside chunks and at cuts, where the
\* concatenation is shorter than T
C14_Witness ==
    /\ s_pc = "done"
    /\ Len(s_chunks) >= 2
    /\ Len(Concat(s_chunks)) < Len(s_orig)
    /\ \E i \in 1..Len(s_chunks) : \E j \in 1..Len(s_chunks[i]) : s_chunks[i][j] = NL

\* the lengths of the chunks
Lens(chunks) == [i \in 1..Len(chunks) |-> Len(chunks[i])]

\* C15: while the remaining text is longer than maxLen, the pass cuts before the
\* last newline among the first maxLen characters of the remaining text, and at
\* maxLen when there is none; a text of 5000 characters without newlines gives
\* chunks of 1900, 1900 and 1200 characters with maxLen 1900.
C15_CutsAtLastNewline ==
    [][ /\ (s_pc = "loop" /\ Len(s_text) > s_max)
            => LET nls == {i \in 1..s_max : s_text[i] = NL}
                   cut == IF nls = {} THEN s_max
                          ELSE (CHOOSE i \in nls : \A j \in nls : j <= i) - 1
               IN  /\ s_chunks' = Append(s_chunks, SubSeq(s_text, 1, cut))
                   /\ Len(s_text') <= Len(s_text) - cut
        /\ (s_pc' = "done" /\ s_orig = Rep("a", 5000) /\ s_max = 1900)
            => Lens(s_chunks') = <<1900, 1900, 1200>> ]_vars

\* the 5000-character text has been split in three
C15_Witness ==
    /\ s_pc = "done"
    /\ s_orig = Rep("a", 5000)
    /\ s_max = 1900
    /\ Lens(s_chunks) = <<1900, 1900, 1200>>

\* C18 as stated: no chunk of a non-empty text is empty.
C18_NoEmptyChunk ==
    s_orig # <<>> => \A i \in 1..Len(s_chunks) : Len(s_chunks[i]) >= 1

\* ---------------------------------------------------------------------
\* Properties of the cache, the handler and the refresh loop

\* a step that ends a refresh_rulebook call whose fetch gave no document: the
\* fetch returned None (claude_client.py:76 false), or it raised
FailedRefreshStep ==
    \E k \in Loops :
        \/ r_pc[k] = "L76" /\ r_pc'[k] # "L76" /\ ~Truthy(r_text[k])
        \/ r_pc[k] = "L151" /\ r_pc'[k] \notin {"L151", "L76"}

\* the step in which request r's _load_rulebook returns
ReturnStep(r) == pc[r] = "L68" /\ pc'[r] # "L68"

\* the document a response makes the fetch give, or None
Fetched(resp) ==
    IF resp.kind = "body" /\ Len(Normalize(resp.body)) >= MIN_RULEBOOK_CHARS
    THEN Normalize(resp.body)
    ELSE None

\* C1: with a document D loaded, a refresh whose fetch fails leaves the cached
\* document equal to D, however many refreshes fail in a row, and a get() that
\* returns afterwards returns the cached document, D.
C1_FailedRefreshKeepsDocument ==
    [][ /\ FailedRefreshStep => rulebook_text' = rulebook_text
        /\ \A r \in Requests :
             ReturnStep(r) => /\ rulebook'[r] = rulebook_text
                              /\ rulebook_text' = rulebook_text ]_vars

\* two refreshes in a row have failed with a document loaded, and a get() has
\* returned that document
C1_Witness ==
    /\ fail_streak = 2
    /\ Truthy(rulebook_text)
    /\ \E r \in Requests : pc[r] = "L93" /\ rulebook[r] = rulebook_text

\* C2: a get() that begins after a get() has returned, with no refresh having
\* replaced the document in between, performs no fetch and no file read and
\* returns the identical value; only a get() that finds the cache empty loads.
C2_SecondGetNoLoad ==
    [][ \A r \in Requests :
          /\ (pc[r] = "idle" /\ pc'[r] # "idle")
               => /\ prev # NoDoc => pc'[r] = "L68"
                  /\ pc'[r] = "L61" <=> rulebook_text = <<>>
          /\ (ReturnStep(r) /\ second[r] /\ prev # NoDoc) => rulebook'[r] = prev ]_vars

\* a second get() has returned what the one before it returned
C2_Witness ==
    \E r \in Requests :
        /\ pc[r] = "L93"
        /\ second[r]
        /\ prev # NoDoc
        /\ rulebook[r] = prev

\* C3 as stated: a get() that finds the cache empty adopts the normalized remote
\* text when the fetch succeeds, and when the fetch fails (a text of fewer than
\* 100 characters included) adopts the local file; it returns without raising.
C3_FirstGetAdoptsOrFallsBack ==
    [][ \A r \in Requests :
          /\ (pc[r] = "L61" /\ pc'[r] # "L61") => pc'[r] = "L62"
          /\ (pc[r] = "L62" /\ pc'[r] # "L62")
               => /\ pc'[r] = "L68"
                  /\ rulebook_text' = IF Fetched(raw[r]) # None
                                      THEN Fetched(raw[r]) ELSE localFile
          /\ ReturnStep(r) => pc'[r] = "L93" /\ rulebook'[r] = rulebook_text ]_vars

\* C4: no exception leaves the refresh loop, and after every refresh attempt,
\* whether it replaced the document, failed or raised, the loop is back at its
\* sleep unless the client is closed, and from the sleep another attempt follows.
C4_LoopSurvivesFailures ==
    /\ [](\A k \in Loops : r_pc[k] # "crashed")
    /\ (r_pc[1] \in {"L76", "L154"}) ~> (r_pc[1] \in {"L151", "exited"})
    /\ (r_pc[1] = "L151") ~> (r_pc[1] \in {"L76", "L154"})

\* refresh_rulebook has raised into the loop's except clause after an earlier
\* failed refresh
C4_Witness == r_pc[1] = "L154" /\ fail_streak = 2

\* the try-again message of bot.py:70-73
ErrorMessage == [kind |-> "error", len |-> 50]

\* C5: a request whose model call failed invoked the model once, its handler
\* sends the try-again message once and no chunk; no request gets both an error
\* message and a chunk.
C5_FailureOneMessage ==
    \A r \in Requests :
        /\ api_failed[r] =>
             /\ api_calls[r] = 1
             /\ answer[r] = <<>>
             /\ pc[r] \in {"except", "done"}
             /\ sent[r] = IF pc[r] = "done" THEN <<ErrorMessage>> ELSE <<>>
        /\ \A i, j \in 1..Len(sent[r]) : sent[r][i].kind = sent[r][j].kind
        /\ \A i \in 1..Len(sent[r]) : sent[r][i].kind = "error" => Len(sent[r]) = 1

\* a request whose model call failed has been answered with the one message
C5_Witness ==
    \E r \in Requests :
        /\ pc[r] = "done"
        /\ api_failed[r]
        /\ api_calls[r] = 1
        /\ sent[r] = <<ErrorMessage>>

\* the texts a load or a refresh can write
CompleteTexts == ({localFile} \cup {Fetched(resp) : resp \in Responses}) \ {None}

\* C9 as stated: while no refresh has run, the document the first completed load
\* wrote stays: a load that completes later does not replace it; and the cached
\* value is always empty or one complete text.
C9_FirstLoadStays ==
    [][ /\ rulebook_text' = <<>> \/ rulebook_text' \in CompleteTexts
        /\ \A r \in Requests :
             (pc[r] = "L62" /\ pc'[r] # "L62" /\ r_pc[1] = "off" /\ rulebook_text # <<>>)
                 => rulebook_text' = rulebook_text ]_vars

\* C11 as stated: no error of the retrieval leaves the fetch: the refresh loop's
\* except clause is never entered, and a request ends in the handler's except
\* clause only when its model call failed.
C11_FetchErrorsAbsorbed ==
    /\ \A k \in Loops : r_pc[k] # "L154"
    /\ \A r \in Requests : pc[r] = "except" => api_failed[r]

\* the documents the remote source can give
RemoteTexts == {Fetched(resp) : resp \in Responses} \ {None}

\* C17 as stated: a cached document that came from the remote source is only
\* ever replaced by a remote text, never by the local file.
C17_RemoteNeverReplacedByLocal ==
    [][ (rulebook_text \in RemoteTexts) => (rulebook_text' \in RemoteTexts) ]_vars

\* C12 as stated: refresh returns true when it replaced the cached document and
\* false when the fetch failed.
C12_RefreshReturnsBoolean ==
    \A k \in Loops :
        r_done[k] # NoOutcome =>
            /\ r_done[k].ret \in {"True", "False"}
            /\ r_done[k].ret = "True" <=> fail_streak = 0

\* C12 amended: refresh returns None whether it replaced the cached document or
\* the fetch failed; the outcome is told by the log record alone, info after a
\* replacement and warning after a failure.
C12_RefreshReturnsNone ==
    r_done[1] # NoOutcome =>
        /\ r_done[1].ret = "None"
        /\ r_done[1].log \in {"info", "warning"}
        /\ r_done[1].log = "info" <=> fail_streak = 0

\* a refresh has failed after one that replaced the document
C12_Witness ==
    /\ r_done[1] = [ret |-> "None", log |-> "warning"]
    /\ rulebook_text \in RemoteTexts
    /\ fail_streak = 1

\* the loop tasks that have been created and have not ended
ActiveLoops == {k \in Loops : r_pc[k] \in {"L151", "L76", "L154"}}

\* C19 as stated: at most one refresh loop runs at any time.
C19_AtMostOneLoop == Cardinality(ActiveLoops) <= 1

\* C10 as stated: once loaded, the cached document has at least 100 characters.
C10_CachedAtLeastMinimum ==
    rulebook_text # <<>> => Len(rulebook_text) >= MIN_RULEBOOK_CHARS

\* ------------------------------------------------ the handlers' claims
Notices == {"notice_other", "notice_unset", "prompt_empty"}

\* C13: ask_rulebook is called only with a question that is non-empty after the
\* mention syntax and the surrounding whitespace are stripped, on the /ask path
\* and on the mention path
C13_DispatchedQuestionNonEmpty ==
    \A h \in Handlers :
        hd[h].arg # NoArg => MentionQuestion(hd[h].arg) # <<>>

\* C16: on both paths a question handed to ask_rulebook was appended to
\* recent_questions before; the buffer never holds more than its capacity (50
\* in the code), and it holds the latest entries in the order of their logging,
\* so the entry dropped is the oldest
C16_LoggedBeforeDispatch ==
    /\ \A h \in Handlers : hd[h].arg # NoArg => hd[h].logged = hd[h].arg
    /\ \A h \in Handlers :
           hd[h].logged # NoArg =>
               \/ \E i \in 1..Len(recent_questions) :
                      recent_questions[i].question = hd[h].logged
               \/ log_count > q_cap
    /\ Len(recent_questions) <= q_cap
    /\ q_cap = MAX_RECENT_QUESTIONS => Len(recent_questions) <= 50
    /\ Len(recent_questions) = Min(log_count, q_cap)
    /\ \A i \in 1..Len(recent_questions) :
           recent_questions[i].time = log_count - Len(recent_questions) + i

\* the 51st question was logged into the buffer of 50 and dispatched: the first
\* entry is gone
C16_Witness ==
    /\ q_cap = MAX_RECENT_QUESTIONS
    /\ log_count = MAX_RECENT_QUESTIONS + 1
    /\ Len(recent_questions) = MAX_RECENT_QUESTIONS
    /\ recent_questions[1].time = 2
    /\ \E h \in Handlers : hd[h].arg # NoArg /\ hd[h].path = "slash"
    /\ \E h \in Handlers : hd[h].arg # NoArg /\ hd[h].path = "mention"

\* C20: a /ask command or an addressed message that is examined while no FAQ
\* channel is set, or that came from another channel than the FAQ channel, gets
\* the notice and then returns, so it reaches neither the log nor ask_rulebook;
\* a handler goes on towards ask_rulebook only from a request that came from
\* the channel that was the FAQ channel when it was examined
C20_OnlyFaqChannelDispatched ==
    [][ \A h \in Handlers :
          /\ ( /\ hd[h].pc = "arrived"
               /\ hd[h].addressed
               /\ hd'[h] # hd[h]
               /\ (faq_channel_id = NoChannel \/ hd[h].chan # faq_channel_id) )
             => /\ hd'[h].pc = IF faq_channel_id = NoChannel
                               THEN "notice_unset" ELSE "notice_other"
                /\ hd'[h].logged = NoArg
                /\ hd'[h].arg = NoArg
                /\ recent_questions' = recent_questions
                /\ log_count' = log_count
          /\ (hd[h].pc \in Notices /\ hd'[h] # hd[h])
             => /\ hd'[h] = IdleHandler
                /\ recent_questions' = recent_questions
                /\ log_count' = log_count
          /\ (hd'[h].pc \in {"L63", "L188"} /\ hd[h].pc \notin {"L63", "L188"})
             => /\ hd[h].pc = "arrived"
                /\ faq_channel_id # NoChannel
                /\ hd[h].chan = faq_channel_id
          /\ (hd'[h].logged # NoArg /\ hd[h].logged = NoArg)
             => hd'[h].pc \in {"L67", "L188"}
          /\ (hd'[h].arg # NoArg /\ hd[h].arg = NoArg)
             => hd[h].pc \in {"L63", "L188"}
      ]_vars

\* a request from another channel is being refused while the only question
\* logged, one from the FAQ channel, has reached ask_rulebook
C20_Witness ==
    /\ faq_channel_id # NoChannel
    /\ \E h \in Handlers : hd[h].pc = "notice_other"
    /\ \E h \in Handlers : hd[h].arg # NoArg /\ hd[h].chan = faq_channel_id
    /\ log_count = 1

====
